---- MODULE Spec2Model ----
(***************************************************************************)
(* Event ingestion and reconciliation pipeline of the Unity API:           *)
(*   KafkaConsumer  (src/src/controllers/healthController.ts, 440-803)     *)
(*   EventController.createEvent / retryFailedEvents (src/unnamed/part_002)*)
(*   Event and User schemas (src/unnamed/part_004)                         *)
(* The Event store and the User store are MongoDB collections; every       *)
(* awaited store call is one atomic step and may fail (store unavailable). *)
(***************************************************************************)
EXTENDS Integers, Sequences, FiniteSets, TLC

\* ---------------------------------------------------------------- bounds
NumPartitions == 1      \* partitions of the consumed topic (pipeline runs)
MaxMsgs == 2            \* messages published in a pipeline run
MaxCrashes == 1         \* process crashes in a pipeline run (each causes redelivery)
MaxRetryMsgs == 1       \* messages published in a run with retry calls
MaxApiEvents == 1       \* direct API event creations in a run with retry calls
MaxStore == 2           \* unprocessed Events in the store of a retry-only run
MaxMatched == 51        \* unprocessed Events in the store of a large-batch run
MaxHandlerMsgs == 2      \* messages published in a run over all handler types
MaxSent == 2             \* messages accepted from the producer in a producer run
MaxConnects == 2         \* underlying connects in a producer run
MaxConcMsgs == 2         \* messages published to two concurrently handled partitions

Partitions == 0 .. (NumPartitions - 1)
RetryPartitions == { 0 }

\* ------------------------------------------------------- program constants
RetryCeiling == 3       \* 'metadata.retryCount': { $lt: 3 }
DefaultLimit == 10      \* const { limit = 10 } = req.query
MinNameLen == 2         \* UserSchema.name.minlength
MaxBatch == 50          \* validateRetryParams: limit isInt({ min: 1, max: 50 })

NoTopic == "none"
NoError == "none"
UserTopic == "user-events"

\* ------------------------------------------------------------ Event schema
\* EventSchema.type enum
EventTypes ==
  { "user.created", "user.updated", "user.deleted", "user.login", "user.logout",
    "order.created", "order.updated", "order.cancelled", "payment.processed",
    "notification.sent", "purchase.created", "purchase.updated",
    "purchase.cancelled", "system.health", "custom" }

\* EventSchema.source enum
EventSources == { "api", "kafka", "system", "webhook" }

\* Mongoose validation run by event.save(): enum membership of type and source.
EventValid(e) == e.type \in EventTypes /\ e.source \in EventSources

\* ------------------------------------------------------------- User schema
\* UserSchema.email: required + match; the addresses used here either match
\* the regular expression or are absent ("").
EmailOk(email) == email \in { "a@x.com", "b@x.com" }

\* UserSchema validation run by user.save(): email required/match, name
\* required with minlength 2.
UserValid(data) == EmailOk(data.email) /\ data.nameLen >= MinNameLen

\* --------------------------------------------------------- broker messages
\* A message value: raw is "json" when JSON.parse succeeds, "garbage" when it
\* throws, "empty" when message.value is null or "".
\* userId is the message's userId field: absent, a well-formed ObjectId (n
\* numbers the ids, the n-th User created has id n) or a string that is not
\* an ObjectId. nested tells whether the data field has a data field of its
\* own.
NoUserId == [kind |-> "absent", n |-> 0]
ObjectId(n) == [kind |-> "objectId", n |-> n]
MalformedId == [kind |-> "malformed", n |-> 0]

Body(raw, type, email, nameLen, userId, nested) ==
  [ raw |-> raw, type |-> type, email |-> email, nameLen |-> nameLen,
    userId |-> userId, nested |-> nested ]

GarbageBody == Body("garbage", "", "", 0, NoUserId, FALSE)

\* A message whose value is null or the empty string.
EmptyBody == Body("empty", "", "", 0, NoUserId, FALSE)
CreatedBody(email, nameLen) == Body("json", "user.created", email, nameLen, NoUserId, FALSE)
LoginBody == Body("json", "user.login", "", 0, NoUserId, FALSE)

\* A type outside the Event vocabulary.
UnknownBody == Body("json", "inventory.adjusted", "", 0, NoUserId, FALSE)

\* user.updated with a new name, user.deleted.
UpdatedBody(userId, nameLen) == Body("json", "user.updated", "", nameLen, userId, FALSE)
DeletedBody(userId) == Body("json", "user.deleted", "", 0, userId, FALSE)

\* purchase.created; sendPurchaseEvent puts price and product directly into
\* data, so its messages are not nested.
PurchaseBody(nested) == Body("json", "purchase.created", "", 0, NoUserId, nested)
PurchaseWire == PurchaseBody(FALSE)

Bodies == { GarbageBody, CreatedBody("a@x.com", 2), CreatedBody("a@x.com", 1), LoginBody }
RetryBodies == { CreatedBody("a@x.com", 2), CreatedBody("a@x.com", 1) }

VARIABLES
  log,          \* log[p]: messages of partition p, offset k is log[p][k+1]
  committed,    \* committed[p]: next offset the consumer group will deliver
  pc,           \* pc[p]: position of handleMessage for partition p
  cur,          \* cur[p]: id of the Event stored by the running handleMessage
  err,          \* err[p]: error.message caught by handleMessage
  events,       \* Event collection, _id = index
  users,        \* User collection
  clock,        \* Date.now()
  crashes,      \* process crashes so far
  apiCount,     \* API creations so far
  retryPc,      \* position of retryFailedEvents
  retrySel,     \* failedEvents: ids selected by the running retry call
  retryStage,   \* retryStage[id]: position of the per-event retry promise
  retriedCount, \* retriedCount of the running retry call
  handlerOk,    \* ids of Events whose side-effect handler returned normally
  userCause,    \* <<partition, offset>> of messages whose handler wrote a User
  isConnected,  \* KafkaProducer.isConnected
  brokerLink,   \* connection of the underlying producer client: "up" or "down"
  connects,     \* calls of the underlying producer.connect() so far
  sent,         \* messages the broker accepted from the producer
  sendResult,   \* how the last producer call ended, and what it returned
  dbOpen,       \* the Mongoose connection is open
  isRunning,    \* KafkaConsumer.isRunning
  shutdownPc,   \* position of gracefulShutdown
  topics,          \* KafkaConsumer.topics
  subscribed,      \* topics the consumer client is subscribed to
  clientConnected, \* consumer.connect() completed, no disconnect since
  clientRunning,   \* consumer.run() completed, no disconnect since
  consumerResult,  \* how the last consumer call ended
  connectPc,       \* connectPc[c]: position of the connect call of caller c
  stats            \* getEventStats: its position, its counts, its response

vars == << log, committed, pc, cur, err, events, users, clock, crashes, apiCount,
           retryPc, retrySel, retryStage, retriedCount, handlerOk, userCause,
           isConnected, brokerLink, connects, sent, sendResult,
           dbOpen, isRunning, shutdownPc,
           topics, subscribed, clientConnected, clientRunning, consumerResult,
           connectPc, stats >>

pipelineVars ==
  << log, committed, pc, cur, err, events, users, clock, crashes, apiCount,
     retryPc, retrySel, retryStage, retriedCount, handlerOk, userCause >>
producerVars == << isConnected, brokerLink, connects, sent, sendResult >>
clientVars == << topics, subscribed, clientConnected, clientRunning, consumerResult >>
lifecycleVars == << dbOpen, isRunning, shutdownPc, clientVars, connectPc, stats >>

consumerVars == << committed, pc, cur, err >>
retryVars == << retryPc, retrySel, retryStage, retriedCount >>

\* A call that returns no value (Promise<void>), and the state in which no
\* producer call has ended yet.
NoValue == [kind |-> "void", partition |-> -1, offset |-> -1]
NoResult == [op |-> "none", outcome |-> "none", logged |-> "none", returned |-> NoValue]

\* The default topics set by the constructor of KafkaConsumer.
DefaultTopics ==
  << "user-events", "system-events", "notification-events", "order-events",
     "purchase-events" >>

Range(seq) == { seq[i] : i \in 1 .. Len(seq) }

\* How a start call that did all its steps ends.
Started == [op |-> "start", outcome |-> "returned", logged |-> "started", returned |-> NoValue]

\* The consumer has been started on the default topics.
ConsumerUp ==
  /\ isRunning = TRUE
  /\ topics = DefaultTopics
  /\ subscribed = Range(DefaultTopics)
  /\ clientConnected = TRUE
  /\ clientRunning = TRUE
  /\ consumerResult = Started

\* No statistics request so far.
NoStats ==
  [ pc |-> "idle", totalEvents |-> 0, processedEvents |-> 0, unprocessedEvents |-> 0,
    response |-> "none" ]

\* The callers of the producer's connect.
Callers == { 1, 2 }

\* The database is connected, the consumer is started, no shutdown signal
\* yet, no connect call of the producer under way.
LifecycleUp ==
  /\ dbOpen = TRUE
  /\ shutdownPc = "none"
  /\ ConsumerUp
  /\ connectPc = [c \in Callers |-> "idle"]
  /\ stats = NoStats

\* initializeServices has run: database connected, producer connected (one
\* underlying connect), consumer started.
ServicesUp ==
  /\ isConnected = TRUE
  /\ brokerLink = "up"
  /\ connects = 1
  /\ sent = << >>
  /\ sendResult = NoResult
  /\ LifecycleUp

\* A store call can succeed only while the connection is open; it can fail
\* at any time (store unavailable).
StoreOk == IF dbOpen THEN BOOLEAN ELSE { FALSE }

\* The consumer after construction, nothing published yet, assigned the
\* partitions P, and the stores empty.
PipelineIdle(P) ==
  /\ log = [p \in P |-> << >>]
  /\ committed = [p \in P |-> 0]
  /\ pc = [p \in P |-> "idle"]
  /\ cur = [p \in P |-> 0]
  /\ err = [p \in P |-> NoError]
  /\ events = << >>
  /\ users = << >>
  /\ clock = 1
  /\ crashes = 0
  /\ apiCount = 0
  /\ retryPc = "idle"
  /\ retrySel = {}
  /\ retryStage = << >>
  /\ retriedCount = 0
  /\ handlerOk = {}
  /\ userCause = {}

InitOn(P) == PipelineIdle(P) /\ ServicesUp

TotalMsgs == LET RECURSIVE Sum(_)
                 Sum(S) == IF S = {} THEN 0
                           ELSE LET p == CHOOSE q \in S : TRUE
                                IN Len(log[p]) + Sum(S \ {p})
             IN Sum(DOMAIN log)

\* ------------------------------------------------------------------ broker
\* A producer publishes one message; the broker appends it to a partition and
\* stamps it with the current time.
Produce(p, body, max) ==
  /\ TotalMsgs < max
  /\ log' = [log EXCEPT ![p] = Append(@, [body |-> body, timestamp |-> clock])]
  /\ clock' = clock + 1
  /\ UNCHANGED << consumerVars, events, users, crashes, apiCount, retryVars,
                  handlerOk, userCause >>
  /\ UNCHANGED << producerVars, lifecycleVars >>


\* ------------------------------------------------------------- Event store
\* Outcome of document.save(): validation runs first, then the write, which
\* fails when the store is unavailable (ok = FALSE).
SaveResult(e, ok) ==
  IF ~EventValid(e) THEN "ValidationError"
  ELSE IF ~ok THEN "StoreUnavailable"
  ELSE NoError

\* The Event handleMessage builds for a decoded message (step 2).
KafkaEvent(p, off, m) ==
  [ type |-> IF m.body.type = "" THEN "custom" ELSE m.body.type,
    data |-> [email |-> m.body.email, nameLen |-> m.body.nameLen],
    source |-> "kafka",
    timestamp |-> m.timestamp,
    processed |-> FALSE,
    kafkaOffset |-> off,
    kafkaPartition |-> p,
    kafkaTopic |-> UserTopic,
    retryCount |-> 0,
    errorMessage |-> NoError ]

\* The Event storeFailedEvent builds for a message whose handling raised; its
\* data carries the original message.
FailedEvent(p, off, m, msg) ==
  [ type |-> "system.error",
    data |-> [email |-> m.body.email, nameLen |-> m.body.nameLen],
    source |-> "kafka",
    timestamp |-> clock,
    processed |-> FALSE,
    kafkaOffset |-> off,
    kafkaPartition |-> p,
    kafkaTopic |-> UserTopic,
    retryCount |-> 1,
    errorMessage |-> msg ]

\* The metadata of an Event built without any: only retryCount is filled, by
\* the schema default.
NoMetadata ==
  [ kafkaOffset |-> -1, kafkaPartition |-> -1, kafkaTopic |-> NoTopic,
    retryCount |-> 0, errorMessage |-> NoError ]

\* The Event createEvent builds: the request body spread, with source,
\* timestamp and processed overridden. Whatever else the body carries,
\* metadata included, is kept.
ApiEvent(body) ==
  [ type |-> body.type,
    data |-> [email |-> "", nameLen |-> 0],
    source |-> "api",
    timestamp |-> clock,
    processed |-> TRUE,
    kafkaOffset |-> body.metadata.kafkaOffset,
    kafkaPartition |-> body.metadata.kafkaPartition,
    kafkaTopic |-> body.metadata.kafkaTopic,
    retryCount |-> body.metadata.retryCount,
    errorMessage |-> body.metadata.errorMessage ]

\* --------------------------------------------------------------- consumer
\* Variant: the message being handled is kept in a field of the consumer,
\* which a handler running for another partition overwrites.
CurrentMsgShared(p) ==
  LET busy == { q \in DOMAIN pc : q # p /\ pc[q] # "idle" }
  IN IF busy = {} THEN log[p][committed[p] + 1]
     ELSE LET q == CHOOSE r \in busy : TRUE IN log[q][committed[q] + 1]

\* The message being handled is the payload argument of the invocation.
CurrentMsg(p) == log[p][committed[p] + 1]

\* handleMessage has completed for partition p. eachMessage resolved
\* ("returned"): the consumer commits the offset and moves on. eachMessage
\* rejected ("raised"): the offset is not committed, the message is redelivered.
Complete(p, outcome) ==
  /\ pc' = [pc EXCEPT ![p] = "idle"]
  /\ cur' = [cur EXCEPT ![p] = 0]
  /\ err' = [err EXCEPT ![p] = NoError]
  /\ committed' = [committed EXCEPT ![p] = IF outcome = "returned" THEN @ + 1 ELSE @]

\* Variant: processEvent runs whether or not the save threw.
AfterStoreEventUnchecked(result) == "process"

\* Where handleMessage goes after storeEvent: processEvent runs only when the
\* save did not throw, otherwise control is in the catch block.
AfterStoreEvent(result) == IF result = NoError THEN "process" ELSE "storeFailed"

\* Variant: eachMessage does not await handleMessage.
HandlerGateOpen(p) == TRUE

\* eachMessage awaits handleMessage: the consumer hands over the next message
\* of a partition only when the handler of the previous one has settled.
HandlerGate(p) == pc[p] = "idle"

\* Variant: handleMessage does not test the message value.
EmptyValueIgnored(m) == FALSE

\* !messageValue: message.value is null or converts to the empty string.
EmptyValue(m) == m.body.raw = "empty"

\* handleMessage up to and including the awaited storeEvent. The client calls
\* eachMessage only between consumer.run and consumer.disconnect.
Deliver(p) ==
  /\ isRunning
  /\ HandlerGate(p)
  /\ committed[p] < Len(log[p])
  /\ LET m == CurrentMsg(p) IN
     IF EmptyValue(m) THEN
        /\ Complete(p, "returned")
        /\ UNCHANGED events
     ELSE IF m.body.raw = "garbage" THEN
        /\ pc' = [pc EXCEPT ![p] = "storeFailed"]
        /\ err' = [err EXCEPT ![p] = "SyntaxError"]
        /\ UNCHANGED << cur, committed, events >>
     ELSE \E ok \in StoreOk :
        LET e == KafkaEvent(p, committed[p], m)
            result == SaveResult(e, ok)
        IN /\ pc' = [pc EXCEPT ![p] = AfterStoreEvent(result)]
           /\ err' = [err EXCEPT ![p] = result]
           /\ IF result = NoError
              THEN /\ events' = Append(events, e)
                   /\ cur' = [cur EXCEPT ![p] = Len(events) + 1]
              ELSE UNCHANGED << events, cur >>
           /\ UNCHANGED committed
  /\ UNCHANGED << log, users, clock, crashes, apiCount, retryVars, handlerOk, userCause >>
  /\ UNCHANGED << producerVars, lifecycleVars >>

\* user.save() in handleUserCreated: "ValidationError", the duplicate-key error
\* (code 11000) when the e-mail is already taken, "StoreUnavailable", or NoError.
UserSaveResult(us, data, ok) ==
  IF ~UserValid(data) THEN "ValidationError"
  ELSE IF ~ok THEN "StoreUnavailable"
  ELSE IF \E i \in 1 .. Len(us) : us[i].email = data.email THEN "E11000"
  ELSE NoError

\* handleUserCreated: what the handler throws (NoError: it returns). A
\* duplicate-key error (error.code === 11000) is logged and swallowed.
HandleUserCreatedError(result) ==
  IF result = "E11000" THEN NoError ELSE result

\* Update validators (runValidators: true) on the name a user.updated sets.
UpdateValid(body) == body.nameLen >= MinNameLen

\* User.findByIdAndUpdate(userId, update), update setting one field: casting a malformed id throws,
\* an id that matches no User gives null and changes nothing.
FindByIdAndUpdate(us, userId, update, valid, ok) ==
  IF userId.kind = "malformed" THEN [users |-> us, thrown |-> "CastError"]
  ELSE IF ~valid THEN [users |-> us, thrown |-> "ValidationError"]
  ELSE IF ~ok THEN [users |-> us, thrown |-> "StoreUnavailable"]
  ELSE IF userId.kind = "objectId" /\ userId.n \in 1 .. Len(us)
       THEN [users |-> [us EXCEPT ![userId.n] = [@ EXCEPT ![update.field] = update.value]], thrown |-> NoError]
  ELSE [users |-> us, thrown |-> NoError]

\* handleUserCreated on the User collection us.
HandleUserCreated(us, body, ok) ==
  LET data == [email |-> body.email, nameLen |-> body.nameLen]
      result == UserSaveResult(us, data, ok)
  IN [ users |-> IF result = NoError
                 THEN Append(us, [email |-> data.email, nameLen |-> data.nameLen,
                                  isActive |-> TRUE])
                 ELSE us,
       thrown |-> HandleUserCreatedError(result) ]

\* handleUserUpdated: the fields of data are set on the User.
HandleUserUpdated(us, body, ok) ==
  FindByIdAndUpdate(us, body.userId, [field |-> "nameLen", value |-> body.nameLen],
                    UpdateValid(body), ok)

\* handleUserDeleted: { isActive: false }.
HandleUserDeleted(us, body, ok) ==
  FindByIdAndUpdate(us, body.userId, [field |-> "isActive", value |-> FALSE], TRUE, ok)

\* handlePurchaseCreated(data) reads data.data.price: a TypeError unless data
\* has a data field of its own.
HandlePurchaseCreated(us, body) ==
  [users |-> us, thrown |-> IF body.nested THEN NoError ELSE "TypeError"]

\* The switch of processEvent: the User collection after the handler and
\* what it throws (NoError: it returns). Types without a case are logged.
HandlerResult(us, body, ok) ==
  IF body.type = "user.created" THEN HandleUserCreated(us, body, ok)
  ELSE IF body.type = "user.updated" THEN HandleUserUpdated(us, body, ok)
  ELSE IF body.type = "user.deleted" THEN HandleUserDeleted(us, body, ok)
  ELSE IF body.type = "purchase.created" THEN HandlePurchaseCreated(us, body)
  ELSE [users |-> us, thrown |-> NoError]

\* processEvent for the message being handled, then the end of the try block.
ProcessEvent(p) ==
  /\ pc[p] = "process"
  /\ \E ok \in StoreOk :
       LET res == HandlerResult(users, CurrentMsg(p).body, ok) IN
         /\ users' = res.users
         /\ userCause' = IF Len(res.users) > Len(users)
                         THEN userCause \cup { << p, committed[p] >> }
                         ELSE userCause
         /\ IF res.thrown = NoError
            THEN /\ handlerOk' = handlerOk \cup { cur[p] }
                 /\ Complete(p, "returned")
            ELSE /\ pc' = [pc EXCEPT ![p] = "storeFailed"]
                 /\ err' = [err EXCEPT ![p] = res.thrown]
                 /\ UNCHANGED << handlerOk, cur, committed >>
  /\ UNCHANGED << log, events, clock, crashes, apiCount, retryVars >>
  /\ UNCHANGED << producerVars, lifecycleVars >>

\* Variant: storeFailedEvent without its try/catch, a failed save propagates.
StoreFailedEventUncaught(result) == IF result = NoError THEN "returned" ELSE "raised"

\* How storeFailedEvent ends: its own try/catch swallows a failed save.
StoreFailedEventOutcome(result) == "returned"

\* The catch block of handleMessage: storeFailedEvent.
StoreFailedEvent(p) ==
  /\ pc[p] = "storeFailed"
  /\ \E ok \in StoreOk :
       LET e == FailedEvent(p, committed[p], CurrentMsg(p), err[p])
           result == SaveResult(e, ok)
       IN /\ events' = IF result = NoError THEN Append(events, e) ELSE events
          /\ Complete(p, StoreFailedEventOutcome(result))
  /\ UNCHANGED << log, users, clock, crashes, apiCount, retryVars, handlerOk, userCause >>
  /\ UNCHANGED << producerVars, lifecycleVars >>

\* The process dies with work in flight: every running handler and retry call
\* is lost, nothing is committed, the store keeps what was written.
Crash ==
  /\ crashes < MaxCrashes
  /\ \E p \in DOMAIN pc : pc[p] # "idle"
  /\ crashes' = crashes + 1
  /\ pc' = [p \in DOMAIN pc |-> "idle"]
  /\ cur' = [p \in DOMAIN pc |-> 0]
  /\ err' = [p \in DOMAIN pc |-> NoError]
  /\ retryPc' = "idle"
  /\ retrySel' = {}
  /\ retryStage' = << >>
  /\ UNCHANGED << log, committed, events, users, clock, apiCount, retriedCount,
                  handlerOk, userCause >>
  /\ UNCHANGED << producerVars, lifecycleVars >>

\* -------------------------------------------------------------------- API
ApiTypes == { "purchase.created" }

\* Request bodies that pass validateEvent: type in the vocabulary, optional
\* source and processed, and any further field, which validateEvent ignores.
ApiBodies ==
  { [type |-> t, source |-> src, processed |-> pr, metadata |-> md] :
      t \in ApiTypes, src \in { "api", "kafka" }, pr \in BOOLEAN,
      md \in { NoMetadata,
               [ kafkaOffset |-> 0, kafkaPartition |-> 0, kafkaTopic |-> UserTopic,
                 retryCount |-> 2, errorMessage |-> NoError ] } }

\* createEvent after request validation passed.
CreateEvent(body) ==
  /\ apiCount < MaxApiEvents
  /\ apiCount' = apiCount + 1
  /\ \E ok \in StoreOk :
       LET e == ApiEvent(body)
       IN events' = IF SaveResult(e, ok) = NoError THEN Append(events, e) ELSE events
  /\ UNCHANGED << log, consumerVars, users, clock, crashes, retryVars, handlerOk, userCause >>
  /\ UNCHANGED << producerVars, lifecycleVars >>

\* ------------------------------------------------------------------ retry
\* Variant: the filter without processed: false.
RetryFilterAnyProcessed(e) == e.retryCount < RetryCeiling

\* Variant: the ceiling compared with $lte instead of $lt.
RetryFilterInclusive(e) == ~e.processed /\ e.retryCount <= RetryCeiling

\* The filter of retryFailedEvents.
RetryFilter(e) == ~e.processed /\ e.retryCount < RetryCeiling

\* sort({ timestamp: 1 }), ties in insertion order.
Before(i, j) ==
  \/ events[i].timestamp < events[j].timestamp
  \/ events[i].timestamp = events[j].timestamp /\ i < j

\* The limit query parameter: absent, a decimal integer, or other text.
NoLimit == [kind |-> "absent", n |-> 0]
IntLimit(n) == [kind |-> "int", n |-> n]
TextLimit == [kind |-> "text", n |-> 0]

\* const { limit = 10 } = req.query; parseInt(limit): the number, or NaN for
\* text that does not start with an integer.
ParseLimit(q) ==
  IF q.kind = "absent" THEN [nan |-> FALSE, n |-> DefaultLimit]
  ELSE IF q.kind = "int" THEN [nan |-> FALSE, n |-> q.n]
  ELSE [nan |-> TRUE, n |-> 0]

\* How many of k matching documents a query with .limit(n) returns: n when
\* positive, every document for 0 (no limit), |n| for a negative n.
LimitCount(n, k) ==
  LET cap == IF n < 0 THEN 0 - n ELSE n
  IN IF n = 0 \/ k < cap THEN k ELSE cap

\* Event.find(filter).sort({timestamp: 1}).limit(n)
FindFailed(n) ==
  LET eligible == { i \in 1 .. Len(events) : RetryFilter(events[i]) }
      count == LimitCount(n, Cardinality(eligible))
  IN { i \in eligible : Cardinality({ j \in eligible : Before(j, i) }) < count }

\* What the find of one call can return: for a NaN limit the query is either
\* rejected (the call answers 500) or runs without a limit.
FindOutcomes(q) ==
  LET lim == ParseLimit(q)
  IN IF lim.nan
     THEN { [failed |-> TRUE, sel |-> {}], [failed |-> FALSE, sel |-> FindFailed(0)] }
     ELSE { [failed |-> FALSE, sel |-> FindFailed(lim.n)] }

RetryLimits == { NoLimit, IntLimit(0), IntLimit(1), IntLimit(2), IntLimit(-1),
                 IntLimit(60), TextLimit }

\* retryFailedEvents up to the response for an empty batch or the start of
\* the per-event promises.
RetryFind(limit) ==
  /\ retryPc = "idle"
  /\ \E out \in FindOutcomes(limit) :
       IF out.failed
       THEN UNCHANGED retryVars
       ELSE /\ retriedCount' = 0
            /\ IF out.sel = {}
               THEN UNCHANGED << retryPc, retrySel, retryStage >>
               ELSE /\ retryPc' = "running"
                    /\ retrySel' = out.sel
                    /\ retryStage' = [i \in out.sel |-> "inc"]
  /\ UNCHANGED << log, consumerVars, events, users, clock, crashes, apiCount,
                  handlerOk, userCause >>
  /\ UNCHANGED << producerVars, lifecycleVars >>

\* Variant: the update adds 2.
IncRetryCountTwice(n) == n + 2

\* Variant: the update counts the remaining retries down ($inc: -1).
IncRetryCountDown(n) == n - 1

\* $inc: { 'metadata.retryCount': 1 }
IncRetryCount(n) == n + 1

\* Variant: the update replaces the document, every other path falls back to
\* its schema default.
MarkProcessedOverwrite(e) ==
  [ type |-> e.type, data |-> [email |-> "", nameLen |-> 0], source |-> "api",
    timestamp |-> clock, processed |-> TRUE, kafkaOffset |-> -1,
    kafkaPartition |-> -1, kafkaTopic |-> NoTopic, retryCount |-> 0,
    errorMessage |-> NoError ]

\* findByIdAndUpdate(event._id, { processed: true }): a $set of one path.
MarkProcessed(e) == [e EXCEPT !.processed = TRUE]

\* Variant: no try/catch inside the per-event promise, the first rejection
\* ends the batch.
RetryCaughtAbort(i) == [j \in DOMAIN retryStage |-> "done"]

\* The catch block of a per-event promise: the error is logged and this
\* promise alone resolves.
RetryCaught(i) == [retryStage EXCEPT ![i] = "done"]

\* First findByIdAndUpdate of a per-event promise: $inc retryCount, $unset
\* errorMessage. A failure lands in the promise's catch.
RetryInc(i) ==
  /\ retryPc = "running"
  /\ i \in retrySel
  /\ retryStage[i] = "inc"
  /\ \E ok \in StoreOk :
       IF ok
       THEN /\ events' = [events EXCEPT ![i].retryCount = IncRetryCount(@),
                                        ![i].errorMessage = NoError]
            /\ retryStage' = [retryStage EXCEPT ![i] = "mark"]
       ELSE /\ retryStage' = RetryCaught(i)
            /\ UNCHANGED events
  /\ UNCHANGED << log, consumerVars, users, clock, crashes, apiCount, retryPc,
                  retrySel, retriedCount, handlerOk, userCause >>
  /\ UNCHANGED << producerVars, lifecycleVars >>

\* Second findByIdAndUpdate of a per-event promise: processed = true, then
\* retriedCount++.
RetryMark(i) ==
  /\ retryPc = "running"
  /\ i \in retrySel
  /\ retryStage[i] = "mark"
  /\ \E ok \in StoreOk :
       IF ok
       THEN /\ events' = [events EXCEPT ![i] = MarkProcessed(@)]
            /\ retriedCount' = retriedCount + 1
            /\ retryStage' = [retryStage EXCEPT ![i] = "done"]
       ELSE /\ retryStage' = RetryCaught(i)
            /\ UNCHANGED << events, retriedCount >>
  /\ UNCHANGED << log, consumerVars, users, clock, crashes, apiCount, retryPc,
                  retrySel, handlerOk, userCause >>
  /\ UNCHANGED << producerVars, lifecycleVars >>

\* Promise.all resolved: the response carries retriedCount.
RetryRespond ==
  /\ retryPc = "running"
  /\ \A i \in retrySel : retryStage[i] = "done"
  /\ retryPc' = "idle"
  /\ retrySel' = {}
  /\ retryStage' = << >>
  /\ UNCHANGED << log, consumerVars, events, users, clock, crashes, apiCount,
                  retriedCount, handlerOk, userCause >>
  /\ UNCHANGED << producerVars, lifecycleVars >>

\* ------------------------------------------------------------ specification
\* The ingestion pipeline alone: the consumer on NumPartitions partitions, with
\* process crashes and redelivery, nobody calling the API.
PipelineInit == InitOn(Partitions)

PipelineNext ==
  \/ \E p \in Partitions, b \in Bodies : Produce(p, b, MaxMsgs)
  \/ \E p \in Partitions : Deliver(p)
  \/ \E p \in Partitions : ProcessEvent(p)
  \/ \E p \in Partitions : StoreFailedEvent(p)
  \/ Crash

PipelineSpec == PipelineInit /\ [][PipelineNext]_vars

\* The pipeline on one partition together with the API: event creation and
\* retry calls, one retry call at a time.
Init == InitOn(RetryPartitions)

Next ==
  \/ \E p \in RetryPartitions, b \in RetryBodies : Produce(p, b, MaxRetryMsgs)
  \/ \E p \in RetryPartitions : Deliver(p)
  \/ \E p \in RetryPartitions : ProcessEvent(p)
  \/ \E p \in RetryPartitions : StoreFailedEvent(p)
  \/ \E b \in ApiBodies : CreateEvent(b)
  \/ \E n \in RetryLimits : RetryFind(n)
  \/ \E i \in 1 .. Len(events) : RetryInc(i)
  \/ \E i \in 1 .. Len(events) : RetryMark(i)
  \/ RetryRespond

Spec == Init /\ [][Next]_vars

\* The same pipeline and API under the requests a well-behaved client sends:
\* user.created messages with a valid name, createEvent bodies that already
\* say source "api" and processed true, and retry calls without a limit or with
\* a limit of one.
ReprocessBodies == { b \in ApiBodies : b.source = "api" /\ b.processed }

ReprocessLimits == { NoLimit, IntLimit(1) }

ReprocessNext ==
  \/ \E p \in RetryPartitions : Produce(p, CreatedBody("a@x.com", 2), MaxRetryMsgs)
  \/ \E p \in RetryPartitions : Deliver(p)
  \/ \E p \in RetryPartitions : ProcessEvent(p)
  \/ \E p \in RetryPartitions : StoreFailedEvent(p)
  \/ \E b \in ReprocessBodies : CreateEvent(b)
  \/ \E n \in ReprocessLimits : RetryFind(n)
  \/ \E i \in 1 .. Len(events) : RetryInc(i)
  \/ \E i \in 1 .. Len(events) : RetryMark(i)
  \/ RetryRespond

ReprocessSpec == Init /\ [][ReprocessNext]_vars

\* The retry operation alone, on a store the pipeline has left behind: MaxStore
\* messages whose handler raised (user.created with a one-letter name), handled
\* and committed, their Events unprocessed. The timestamps are the ones the
\* producers stamped, in any order.
StoredMsg(ts) == [body |-> CreatedBody("a@x.com", 1), timestamp |-> ts]

\* The store, the log and the consumer after n such messages were handled.
StoreInit(n, ts) ==
  /\ log = [p \in RetryPartitions |-> [k \in 1 .. n |-> StoredMsg(ts[k])]]
  /\ committed = [p \in RetryPartitions |-> n]
  /\ pc = [p \in RetryPartitions |-> "idle"]
  /\ cur = [p \in RetryPartitions |-> 0]
  /\ err = [p \in RetryPartitions |-> NoError]
  /\ events = [k \in 1 .. n |-> KafkaEvent(0, k - 1, StoredMsg(ts[k]))]
  /\ users = << >>
  /\ clock = n + 1
  /\ crashes = 0
  /\ apiCount = 0
  /\ retryPc = "idle"
  /\ retrySel = {}
  /\ retryStage = << >>
  /\ retriedCount = 0
  /\ handlerOk = {}
  /\ userCause = {}
  /\ ServicesUp

RetryInit == \E ts \in [1 .. MaxStore -> 1 .. MaxStore] : StoreInit(MaxStore, ts)

RetryNext ==
  \/ \E n \in RetryLimits : RetryFind(n)
  \/ \E i \in 1 .. Len(events) : RetryInc(i)
  \/ \E i \in 1 .. Len(events) : RetryMark(i)
  \/ RetryRespond

RetrySpec == RetryInit /\ [][RetryNext]_vars

\* Retry calls on a store of MaxMatched unprocessed Events, the store always
\* available and the per-event promises of a call settling in id order.
BatchInit == StoreInit(MaxMatched, [k \in 1 .. MaxMatched |-> k])

Pending == { i \in retrySel : retryStage[i] # "done" }

FirstPending(i) == i \in Pending /\ \A j \in Pending : i <= j

BatchNext ==
  \/ \E n \in RetryLimits : RetryFind(n)
  \/ \E i \in 1 .. Len(events) :
       FirstPending(i) /\ RetryInc(i) /\ retryStage'[i] = "mark"
  \/ \E i \in 1 .. Len(events) :
       FirstPending(i) /\ RetryMark(i) /\ events'[i].processed
  \/ RetryRespond

BatchSpec == BatchInit /\ [][BatchNext]_vars

\* The pipeline on one partition over every kind of handler: types outside the
\* vocabulary, types without a handler, purchases in and out of the producer's
\* format, and user updates and deletions by id.
HandlerBodies ==
  { UnknownBody, LoginBody, PurchaseWire, PurchaseBody(TRUE),
    CreatedBody("a@x.com", 2),
    UpdatedBody(ObjectId(1), 3), UpdatedBody(MalformedId, 3),
    DeletedBody(ObjectId(1)), DeletedBody(MalformedId) }

HandlerInit == InitOn(RetryPartitions)

HandlerNext ==
  \/ \E p \in RetryPartitions, b \in HandlerBodies : Produce(p, b, MaxHandlerMsgs)
  \/ \E p \in RetryPartitions : Deliver(p)
  \/ \E p \in RetryPartitions : ProcessEvent(p)
  \/ \E p \in RetryPartitions : StoreFailedEvent(p)

HandlerSpec == HandlerInit /\ [][HandlerNext]_vars

\* ---------------------------------------------------------------- producer
\* How a producer call ended: it returned or raised, the last message it
\* logged or threw, and the value it returned.
Result(op, outcome, logged, returned) ==
  [op |-> op, outcome |-> outcome, logged |-> logged, returned |-> returned]

\* A key argument or userId field that is not there.
Undefined == "undefined"

\* JavaScript truthiness of an optional string.
Truthy(x) == x \notin { Undefined, "" }

\* Variant: the key argument alone, without the userId fallback.
PartitionKeyArgOnly(key, userId) == IF Truthy(key) THEN key ELSE "default"

\* key: key || message.userId || 'default'
PartitionKey(key, userId) ==
  IF Truthy(key) THEN key ELSE IF Truthy(userId) THEN userId ELSE "default"

\* Variant: connect without the isConnected check.
AlreadyConnectedIgnored == FALSE

\* if (this.isConnected) return, at the top of connect.
AlreadyConnected == isConnected

\* Variant: sendMessage without the isConnected check.
NotConnectedIgnored == FALSE

\* if (!this.isConnected) throw, at the top of sendMessage.
NotConnected == ~isConnected

\* The partition and offset the broker assigns: the topic has one partition,
\* offsets count the messages accepted.
RecordMetadata == [kind |-> "metadata", partition |-> 0, offset |-> Len(sent)]

\* What sendMessage returns on success: Promise<void>, the metadata is only
\* logged.
SendReturn(metadata) == NoValue

KafkaProducerConnect ==
  /\ IF AlreadyConnected
     THEN /\ sendResult' = Result("connect", "returned", "already connected", NoValue)
          /\ UNCHANGED << isConnected, brokerLink, connects, sent >>
     ELSE /\ connects < MaxConnects
          /\ connects' = connects + 1
          /\ UNCHANGED sent
          /\ \E ok \in BOOLEAN :
               IF ok
               THEN /\ brokerLink' = "up"
                    /\ isConnected' = TRUE
                    /\ sendResult' = Result("connect", "returned", "connected", NoValue)
               ELSE /\ sendResult' = Result("connect", "raised", "connect failed", NoValue)
                    /\ UNCHANGED << isConnected, brokerLink >>
  /\ UNCHANGED << pipelineVars, lifecycleVars >>

\* disconnect, as far as the producer's own state goes.
DisconnectProducer ==
  /\ IF ~isConnected
     THEN /\ sendResult' = Result("disconnect", "returned", "not connected", NoValue)
          /\ UNCHANGED << isConnected, brokerLink >>
     ELSE \E ok \in BOOLEAN :
            IF ok
            THEN /\ brokerLink' = "down"
                 /\ isConnected' = FALSE
                 /\ sendResult' = Result("disconnect", "returned", "disconnected", NoValue)
            ELSE /\ sendResult' = Result("disconnect", "raised", "disconnect failed", NoValue)
                 /\ UNCHANGED << isConnected, brokerLink >>
  /\ UNCHANGED << connects, sent >>

KafkaProducerDisconnect ==
  /\ DisconnectProducer
  /\ UNCHANGED << pipelineVars, lifecycleVars >>

\* sendMessage(topic, message, key) for a message with the given userId. With
\* the client's connection down, producer.send either fails or the client
\* re-establishes the connection on its own and the message is accepted.
KafkaProducerSend(key, userId) ==
  /\ IF NotConnected
     THEN /\ sendResult' = Result("send", "raised", "Kafka producer not connected", NoValue)
          /\ UNCHANGED << brokerLink, sent >>
     ELSE \E ok \in BOOLEAN :
            IF ok
            THEN /\ Len(sent) < MaxSent
                 /\ sent' = Append(sent, [ key |-> PartitionKey(key, userId),
                                           keyArg |-> key,
                                           userId |-> userId,
                                           partition |-> RecordMetadata.partition,
                                           offset |-> RecordMetadata.offset ])
                 /\ brokerLink' = "up"
                 /\ sendResult' = Result("send", "returned", "Message sent successfully",
                                         SendReturn(RecordMetadata))
            ELSE /\ sendResult' = Result("send", "raised", "send failed", NoValue)
                 /\ UNCHANGED << brokerLink, sent >>
  /\ UNCHANGED << isConnected, connects, pipelineVars, lifecycleVars >>

\* The connection of the underlying client to the broker is lost.
LinkLost ==
  /\ brokerLink = "up"
  /\ brokerLink' = "down"
  /\ UNCHANGED << isConnected, connects, sent, sendResult, pipelineVars, lifecycleVars >>

KeyArgs == { Undefined, "", "k1" }
UserIds == { Undefined, "", "u1" }

\* The producer after construction: not connected, nothing sent.
ProducerInit ==
  /\ PipelineIdle(RetryPartitions)
  /\ LifecycleUp
  /\ isConnected = FALSE
  /\ brokerLink = "down"
  /\ connects = 0
  /\ sent = << >>
  /\ sendResult = NoResult

ProducerNext ==
  \/ KafkaProducerConnect
  \/ KafkaProducerDisconnect
  \/ \E k \in KeyArgs, u \in UserIds : KafkaProducerSend(k, u)
  \/ LinkLost

ProducerSpec == ProducerInit /\ [][ProducerNext]_vars

\* ------------------------------------------------------ overlapping connect
\* connect of caller c up to its await: returns at once when isConnected,
\* otherwise calls producer.connect() and waits for it.
ConnectBegin(c) ==
  /\ connectPc[c] = "idle"
  /\ IF AlreadyConnected
     THEN /\ sendResult' = Result("connect", "returned", "already connected", NoValue)
          /\ UNCHANGED << connects, connectPc, stats >>
     ELSE /\ connects < MaxConnects
          /\ connects' = connects + 1
          /\ connectPc' = [connectPc EXCEPT ![c] = "awaiting"]
          /\ UNCHANGED sendResult
  /\ UNCHANGED << isConnected, brokerLink, sent, pipelineVars, dbOpen, isRunning,
                  shutdownPc, clientVars, stats >>

\* connect of caller c after its await: producer.connect() resolved and
\* isConnected is set, or it rejected and the error is rethrown.
ConnectEnd(c) ==
  /\ connectPc[c] = "awaiting"
  /\ connectPc' = [connectPc EXCEPT ![c] = "idle"]
  /\ \E ok \in BOOLEAN :
       IF ok
       THEN /\ brokerLink' = "up"
            /\ isConnected' = TRUE
            /\ sendResult' = Result("connect", "returned", "connected", NoValue)
       ELSE /\ sendResult' = Result("connect", "raised", "connect failed", NoValue)
            /\ UNCHANGED << isConnected, brokerLink >>
  /\ UNCHANGED << connects, sent, pipelineVars, dbOpen, isRunning, shutdownPc,
                  clientVars, stats >>

\* The producer with two callers of connect, whose calls can overlap.
ConnectNext ==
  \/ \E c \in Callers : ConnectBegin(c)
  \/ \E c \in Callers : ConnectEnd(c)
  \/ \E k \in KeyArgs, u \in UserIds : KafkaProducerSend(k, u)
  \/ LinkLost

ConnectSpec == ProducerInit /\ [][ConnectNext]_vars

\* -------------------------------------------------------------- statistics
\* Event.countDocuments({ processed: flag }).
CountProcessed(flag) ==
  Cardinality({ i \in 1 .. Len(events) : events[i].processed = flag })

\* The catch block of getEventStats: status 500.
StatsFailed == [stats EXCEPT !.pc = "idle", !.response = "error"]

\* getEventStats up to the end of the awaited Event.aggregate.
StatsAggregate ==
  /\ stats.pc = "idle"
  /\ \E ok \in StoreOk :
       stats' = IF ok THEN [NoStats EXCEPT !.pc = "total"]
                ELSE [NoStats EXCEPT !.response = "error"]
  /\ UNCHANGED << pipelineVars, producerVars, dbOpen, isRunning, shutdownPc,
                  clientVars, connectPc >>

\* await Event.countDocuments()
StatsCountTotal ==
  /\ stats.pc = "total"
  /\ \E ok \in StoreOk :
       stats' = IF ok THEN [stats EXCEPT !.pc = "processed", !.totalEvents = Len(events)]
                ELSE StatsFailed
  /\ UNCHANGED << pipelineVars, producerVars, dbOpen, isRunning, shutdownPc,
                  clientVars, connectPc >>

\* await Event.countDocuments({ processed: true })
StatsCountProcessed ==
  /\ stats.pc = "processed"
  /\ \E ok \in StoreOk :
       stats' = IF ok THEN [stats EXCEPT !.pc = "unprocessed",
                                         !.processedEvents = CountProcessed(TRUE)]
                ELSE StatsFailed
  /\ UNCHANGED << pipelineVars, producerVars, dbOpen, isRunning, shutdownPc,
                  clientVars, connectPc >>

\* await Event.countDocuments({ processed: false }), then the response.
StatsCountUnprocessed ==
  /\ stats.pc = "unprocessed"
  /\ \E ok \in StoreOk :
       stats' = IF ok THEN [stats EXCEPT !.pc = "idle", !.response = "ok",
                                         !.unprocessedEvents = CountProcessed(FALSE)]
                ELSE StatsFailed
  /\ UNCHANGED << pipelineVars, producerVars, dbOpen, isRunning, shutdownPc,
                  clientVars, connectPc >>

\* Statistics requests while the pipeline inserts Events and retry calls
\* mark them processed.
StatsInit == InitOn(RetryPartitions)

StatsNext ==
  \/ \E p \in RetryPartitions : Produce(p, CreatedBody("a@x.com", 2), MaxRetryMsgs)
  \/ \E p \in RetryPartitions : Deliver(p)
  \/ \E p \in RetryPartitions : ProcessEvent(p)
  \/ \E p \in RetryPartitions : StoreFailedEvent(p)
  \/ RetryFind(NoLimit)
  \/ \E i \in 1 .. Len(events) : RetryInc(i)
  \/ \E i \in 1 .. Len(events) : RetryMark(i)
  \/ RetryRespond
  \/ StatsAggregate
  \/ StatsCountTotal
  \/ StatsCountProcessed
  \/ StatsCountUnprocessed

StatsSpec == StatsInit /\ [][StatsNext]_vars

\* ---------------------------------------------------------------- shutdown
\* gracefulShutdown(signal): server.close is called, its callback runs once
\* the HTTP server has closed.
ShutdownSignal ==
  /\ shutdownPc = "none"
  /\ shutdownPc' = "serverClosed"
  /\ UNCHANGED << pipelineVars, producerVars, dbOpen, isRunning, clientVars, connectPc, stats >>

\* await databaseConnection.disconnect(), the first step of the callback.
ShutdownDatabase ==
  /\ shutdownPc = "serverClosed"
  /\ dbOpen' = FALSE
  /\ shutdownPc' = "databaseClosed"
  /\ UNCHANGED << pipelineVars, producerVars, isRunning, clientVars, connectPc, stats >>

\* consumer.disconnect() resolves when the running eachMessage calls have
\* settled.
ConsumerDrained == \A p \in DOMAIN pc : pc[p] = "idle"

\* The guard of stop.
NotRunning == ~isRunning

\* stop, as far as the consumer's own state goes: returns at once when not
\* running, otherwise disconnects the client and clears isRunning; a failed
\* disconnect is rethrown.
StopConsumer ==
  /\ IF NotRunning
     THEN /\ consumerResult' = Result("stop", "returned", "not running", NoValue)
          /\ UNCHANGED << isRunning, subscribed, clientConnected, clientRunning >>
     ELSE \/ /\ ConsumerDrained
             /\ isRunning' = FALSE
             /\ subscribed' = {}
             /\ clientConnected' = FALSE
             /\ clientRunning' = FALSE
             /\ consumerResult' = Result("stop", "returned", "stopped", NoValue)
          \/ /\ consumerResult' = Result("stop", "raised", "disconnect failed", NoValue)
             /\ UNCHANGED << isRunning, subscribed, clientConnected, clientRunning >>
  /\ UNCHANGED topics

\* await kafkaConsumer.stop(); a rethrown failure ends the callback.
ShutdownConsumer ==
  /\ shutdownPc = "databaseClosed"
  /\ StopConsumer
  /\ shutdownPc' = IF consumerResult'.outcome = "raised" THEN "failed" ELSE "consumerStopped"
  /\ UNCHANGED << pipelineVars, producerVars, dbOpen, connectPc, stats >>

\* await kafkaProducer.disconnect(), then process.exit(0); a rethrown
\* disconnect failure ends the callback before the exit.
ShutdownProducer ==
  /\ shutdownPc = "consumerStopped"
  /\ DisconnectProducer
  /\ shutdownPc' = IF sendResult'.outcome = "raised" THEN "failed" ELSE "exited"
  /\ UNCHANGED << pipelineVars, dbOpen, isRunning, clientVars, connectPc, stats >>

\* The pipeline on one partition with a shutdown signal arriving at any time.
ShutdownInit == InitOn(RetryPartitions)

ShutdownNext ==
  \/ \E p \in RetryPartitions, b \in RetryBodies : Produce(p, b, MaxHandlerMsgs)
  \/ \E p \in RetryPartitions : Deliver(p)
  \/ \E p \in RetryPartitions : ProcessEvent(p)
  \/ \E p \in RetryPartitions : StoreFailedEvent(p)
  \/ ShutdownSignal
  \/ ShutdownDatabase
  \/ ShutdownConsumer
  \/ ShutdownProducer

ShutdownSpec == ShutdownInit /\ [][ShutdownNext]_vars

\* -------------------------------------------------- concurrent partitions
\* The consumer assigned two partitions whose handlers run concurrently.
ConcPartitions == { 0, 1 }

ConcBodies ==
  { CreatedBody("a@x.com", 2), UpdatedBody(ObjectId(1), 3), DeletedBody(ObjectId(1)) }

ConcInit == InitOn(ConcPartitions)

ConcNext ==
  \/ \E p \in ConcPartitions, b \in ConcBodies : Produce(p, b, MaxConcMsgs)
  \/ \E p \in ConcPartitions : Deliver(p)
  \/ \E p \in ConcPartitions : ProcessEvent(p)
  \/ \E p \in ConcPartitions : StoreFailedEvent(p)

ConcurrentSpec == ConcInit /\ [][ConcNext]_vars

\* storeFailedEvent run on its own on the store st (Events as a set, Users).
SeqStoreFailed(st, p, k, m, msg, ok) ==
  LET e == FailedEvent(p, k, m, msg)
  IN IF SaveResult(e, ok) = NoError
     THEN [st EXCEPT !.events = @ \cup { e }]
     ELSE st

\* One whole handleMessage invocation, for the message at offset k of
\* partition p, run from start to end on the store st; oks are the outcomes
\* of its store calls.
SeqHandleMessage(st, p, k, oks) ==
  LET m == log[p][k + 1] IN
  IF m.body.raw = "empty" THEN st
  ELSE IF m.body.raw = "garbage" THEN SeqStoreFailed(st, p, k, m, "SyntaxError", oks[3])
  ELSE LET e == KafkaEvent(p, k, m)
           result == SaveResult(e, oks[1])
       IN IF result # NoError THEN SeqStoreFailed(st, p, k, m, result, oks[3])
          ELSE LET res == HandlerResult(st.users, m.body, oks[2])
                   after == [events |-> st.events \cup { e }, users |-> res.users]
               IN IF res.thrown = NoError THEN after
                  ELSE SeqStoreFailed(after, p, k, m, res.thrown, oks[3])

\* The stores every sequential execution of the published messages can end
\* with: invocations run one after another, each partition in offset order.
\* done[p] messages of partition p have been handled, sts are the stores
\* the executions so far can have produced.
RECURSIVE SeqRuns(_, _)
SeqRuns(done, sts) ==
  LET rest == { p \in DOMAIN log : done[p] < Len(log[p]) }
  IN IF rest = {} THEN sts
     ELSE UNION { SeqRuns([done EXCEPT ![p] = @ + 1],
                          { SeqHandleMessage(st, p, done[p], oks)
                            : st \in sts, oks \in BOOLEAN \X BOOLEAN \X BOOLEAN })
                  : p \in rest }

SeqOutcomes == SeqRuns([p \in DOMAIN log |-> 0], { [events |-> {}, users |-> << >>] })

\* A step of handleMessage for partition p.
HandleMessageStep(p) == Deliver(p) \/ ProcessEvent(p) \/ StoreFailedEvent(p)

\* ------------------------------------------------------ consumer lifecycle
\* Variant: isRunning is set before the awaited steps of start.
StartCompletedAlways(failedAt) == TRUE

\* start reaches this.isRunning = true only when connect, subscribe and run
\* have all resolved; failedAt names the step that rejected.
StartCompleted(failedAt) == failedAt = "none"

\* The guard of start.
AlreadyRunning == isRunning

StartSteps == { "connect", "subscribe", "run" }

\* start: returns at once when running; otherwise connects the client,
\* subscribes it to this.topics and runs it, then sets isRunning. A step that
\* rejects is logged and rethrown; what the earlier steps did stays.
KafkaConsumerStart ==
  /\ IF AlreadyRunning
     THEN /\ consumerResult' = Result("start", "returned", "already running", NoValue)
          /\ UNCHANGED << isRunning, subscribed, clientConnected, clientRunning >>
     ELSE \E failedAt \in StartSteps \cup { "none" } :
          /\ clientConnected' = (clientConnected \/ failedAt # "connect")
          /\ subscribed' = IF failedAt \in { "connect", "subscribe" }
                           THEN subscribed
                           ELSE subscribed \cup Range(topics)
          /\ clientRunning' = (clientRunning \/ failedAt = "none")
          /\ isRunning' = IF StartCompleted(failedAt) THEN TRUE ELSE isRunning
          /\ consumerResult' = IF failedAt = "none" THEN Started
                               ELSE Result("start", "raised", failedAt, NoValue)
  /\ UNCHANGED << topics, pipelineVars, producerVars, dbOpen, shutdownPc, connectPc, stats >>

KafkaConsumerStop ==
  /\ StopConsumer
  /\ UNCHANGED << pipelineVars, producerVars, dbOpen, shutdownPc, connectPc, stats >>

\* The consumer after construction: not started, the default topics set.
ConsumerInit ==
  /\ PipelineIdle(RetryPartitions)
  /\ isConnected = TRUE
  /\ brokerLink = "up"
  /\ connects = 1
  /\ sent = << >>
  /\ sendResult = NoResult
  /\ dbOpen = TRUE
  /\ shutdownPc = "none"
  /\ isRunning = FALSE
  /\ topics = DefaultTopics
  /\ subscribed = {}
  /\ clientConnected = FALSE
  /\ clientRunning = FALSE
  /\ consumerResult = NoResult
  /\ connectPc = [c \in Callers |-> "idle"]
  /\ stats = NoStats

ConsumerNext ==
  \/ \E p \in RetryPartitions, b \in RetryBodies : Produce(p, b, MaxHandlerMsgs)
  \/ \E p \in RetryPartitions : Deliver(p)
  \/ \E p \in RetryPartitions : ProcessEvent(p)
  \/ \E p \in RetryPartitions : StoreFailedEvent(p)
  \/ KafkaConsumerStart
  \/ KafkaConsumerStop

ConsumerSpec == ConsumerInit /\ [][ConsumerNext]_vars

\* ------------------------------------------------------------------ topics
\* splice(index, 1) at the index of topic.
Splice(seq, topic) ==
  LET index == CHOOSE i \in 1 .. Len(seq) : seq[i] = topic
  IN SubSeq(seq, 1, index - 1) \o SubSeq(seq, index + 1, Len(seq))

\* addTopic: a topic not yet in this.topics is pushed and, when the consumer
\* is running, subscribed to; a rejected subscribe propagates after the push.
AddTopic(topic) ==
  /\ IF topic \in Range(topics)
     THEN /\ consumerResult' = Result("addTopic", "returned", "known", NoValue)
          /\ UNCHANGED << topics, subscribed >>
     ELSE /\ topics' = Append(topics, topic)
          /\ IF isRunning
             THEN \E ok \in BOOLEAN :
                    IF ok
                    THEN /\ subscribed' = subscribed \cup { topic }
                         /\ consumerResult' = Result("addTopic", "returned", "added", NoValue)
                    ELSE /\ consumerResult' = Result("addTopic", "raised", "subscribe failed", NoValue)
                         /\ UNCHANGED subscribed
             ELSE /\ consumerResult' = Result("addTopic", "returned", "pushed", NoValue)
                  /\ UNCHANGED subscribed
  /\ UNCHANGED << clientConnected, clientRunning, pipelineVars, producerVars, dbOpen,
                  isRunning, shutdownPc, connectPc, stats >>

\* removeTopic: a topic in this.topics is spliced out of it.
RemoveTopic(topic) ==
  /\ IF topic \in Range(topics)
     THEN /\ topics' = Splice(topics, topic)
          /\ consumerResult' = Result("removeTopic", "returned", "removed", NoValue)
     ELSE /\ consumerResult' = Result("removeTopic", "returned", "unknown", NoValue)
          /\ UNCHANGED topics
  /\ UNCHANGED << subscribed, clientConnected, clientRunning, pipelineVars,
                  producerVars, dbOpen, isRunning, shutdownPc, connectPc, stats >>

\* What getStatus reports of the consumer.
GetStatus == [isRunning |-> isRunning, topics |-> topics]

\* The topics callers add and remove: two of the defaults and a new one.
TopicNames == { "user-events", "purchase-events", "audit-events" }

\* A running consumer whose topic list is changed by its callers.
TopicInit == InitOn(RetryPartitions)

TopicNext ==
  \/ \E t \in TopicNames : AddTopic(t)
  \/ \E t \in TopicNames : RemoveTopic(t)

TopicSpec == TopicInit /\ [][TopicNext]_vars

\* ------------------------------------------------------------ empty values
\* The pipeline on one partition receiving empty, undecodable and well-formed
\* messages.
SkipBodies == { EmptyBody, GarbageBody, CreatedBody("a@x.com", 2), LoginBody }

SkipInit == InitOn(RetryPartitions)

SkipNext ==
  \/ \E p \in RetryPartitions, b \in SkipBodies : Produce(p, b, MaxHandlerMsgs)
  \/ \E p \in RetryPartitions : Deliver(p)
  \/ \E p \in RetryPartitions : ProcessEvent(p)
  \/ \E p \in RetryPartitions : StoreFailedEvent(p)

SkipSpec == SkipInit /\ [][SkipNext]_vars

\* -------------------------------------------------------- payload timestamp
\* The timestamp field of a payload: absent, or the producer's event time.
NoTimestamp == << >>

\* The event times a producer can put into a payload published now: none,
\* the time of publication, or an earlier time.
PayloadTimestamps == { NoTimestamp, << clock >>, << clock - 1 >> }

\* A producer publishes a message whose payload carries the timestamp field
\* stamp; the broker record is stamped with the time of publication.
ProduceStamped(p, body, stamp, max) ==
  /\ TotalMsgs < max
  /\ log' = [log EXCEPT ![p] = Append(@, [body |-> body, timestamp |-> clock,
                                          payloadTimestamp |-> stamp])]
  /\ clock' = clock + 1
  /\ UNCHANGED << consumerVars, events, users, crashes, apiCount, retryVars,
                  handlerOk, userCause >>
  /\ UNCHANGED << producerVars, lifecycleVars >>

TimestampInit == InitOn(RetryPartitions)

TimestampNext ==
  \/ \E p \in RetryPartitions, b \in RetryBodies, t \in PayloadTimestamps : ProduceStamped(p, b, t, MaxHandlerMsgs)
  \/ \E p \in RetryPartitions : Deliver(p)
  \/ \E p \in RetryPartitions : ProcessEvent(p)
  \/ \E p \in RetryPartitions : StoreFailedEvent(p)

TimestampSpec == TimestampInit /\ [][TimestampNext]_vars

\* ------------------------------------------------------------ properties
EventIds == 1 .. Len(events)

\* The Events stored for the message at offset k of partition p.
EventsOf(p, k) ==
  { i \in EventIds : /\ events[i].source = "kafka"
                     /\ events[i].kafkaPartition = p
                     /\ events[i].kafkaOffset = k }

\* handleMessage for partition p ends in this step (not by a crash).
Completes(p) == pc[p] # "idle" /\ pc'[p] = "idle" /\ crashes' = crashes

\* Every published message has been handled and nothing is in flight.
Quiescent ==
  \A p \in DOMAIN pc : pc[p] = "idle" /\ committed[p] = Len(log[p])

\* C1: once handleMessage has completed for a decoded message whose handler
\* returned normally, the Event persisted for it has source=kafka,
\* processed=true and retryCount=0.
C1_ProcessedAfterSuccess ==
  \A i \in EventIds :
    (i \in handlerOk /\ \A p \in DOMAIN cur : cur[p] # i)
      => /\ events[i].source = "kafka"
         /\ events[i].processed
         /\ events[i].retryCount = 0

\* C2: when the handler raises for a decoded message, handleMessage leaves the
\* Event persisted in step 2 with processed=false, retryCount incremented by
\* one and the handler's error message recorded on it.
C2_FailureRecordedOnEvent ==
  [][\A p \in DOMAIN pc :
       (pc[p] = "storeFailed" /\ cur[p] # 0 /\ Completes(p))
         => /\ ~events'[cur[p]].processed
            /\ events'[cur[p]].retryCount = events[cur[p]].retryCount + 1
            /\ events'[cur[p]].errorMessage = err[p]]_vars

\* C3: a handled message with an undecodable body has exactly one Event:
\* type=system.error, source=kafka, processed=false, retryCount=1, a
\* non-empty error message and the message's topic/partition/offset.
C3_PoisonQuarantined ==
  \A p \in DOMAIN log : \A k \in 0 .. (committed[p] - 1) :
    log[p][k + 1].body.raw = "garbage"
      => /\ Cardinality(EventsOf(p, k)) = 1
         /\ \A i \in EventsOf(p, k) :
              /\ events[i].type = "system.error"
              /\ ~events[i].processed
              /\ events[i].retryCount = 1
              /\ events[i].errorMessage # NoError
              /\ events[i].kafkaTopic = UserTopic

\* C4: handleMessage never raises to the broker client: whenever it ends, for
\* an undecodable body, a handler exception or a store failure (also one while
\* storing the failure record), the offset of its partition advances by one.
C4_NeverRaises ==
  [][\A p \in DOMAIN pc : Completes(p) => committed'[p] = committed[p] + 1]_vars

\* Witness of C4: a poison message and after it a message whose handler raised
\* have both been consumed on one partition.
C4_Witness ==
  \E p \in DOMAIN log :
    /\ committed[p] = 2
    /\ pc[p] = "idle"
    /\ log[p][1].body.raw = "garbage"
    /\ log[p][2].body = CreatedBody("a@x.com", 1)
    /\ EventsOf(p, 1) # {}

\* C5: an undecodable message followed by a valid message on the same
\* partition yields an Event for each of the two messages, and the valid
\* message's side effect is executed.
C5_PoisonThenValid ==
  \A p \in DOMAIN log :
    ( /\ committed[p] = 2
      /\ log[p][1].body.raw = "garbage"
      /\ log[p][2].body = CreatedBody("a@x.com", 2)
      /\ EventsOf(p, 1) \cap handlerOk # {} )
      => /\ EventsOf(p, 0) # {}
         /\ EventsOf(p, 1) # {}
         /\ \E u \in 1 .. Len(users) : users[u].email = "a@x.com"

\* C6: persistence precedes side effects. While the handler of a message runs,
\* the Event of that message is in the store as inserted (source=kafka,
\* processed=false, topic, partition, offset, retryCount 0), and every User
\* write caused by a message has an Event of that message in the store, also
\* after a crash.
C6_PersistBeforeSideEffect ==
  /\ \A p \in DOMAIN pc :
       pc[p] = "process"
         => /\ cur[p] \in EventIds
            /\ events[cur[p]] = KafkaEvent(p, committed[p], CurrentMsg(p))
  /\ \A c \in userCause : EventsOf(c[1], c[2]) # {}
  /\ \A i \in handlerOk : i \in EventIds

\* Witness of C6: a message's handler has written a User, and the process has
\* crashed once between the insert of an Event and its handler.
C6_Witness ==
  /\ userCause # {}
  /\ crashes = 1
  /\ \E i \in EventIds : i \notin handlerOk /\ events[i].type = "user.created"

\* C7: after two deliveries of user.created for the same e-mail, both handled
\* successfully, there is exactly one User, there are two Events, and both
\* Events have processed=true.
C7_DuplicateDelivery ==
  LET created == { i \in EventIds : /\ events[i].type = "user.created"
                                    /\ events[i].data.email = "a@x.com"
                                    /\ i \in handlerOk }
  IN (Quiescent /\ Cardinality(created) = 2)
       => /\ Cardinality({ u \in 1 .. Len(users) : users[u].email = "a@x.com" }) = 1
          /\ \A i \in created : events[i].processed

\* C8: a broker-sourced Event with processed=true has had its side-effect
\* handler attempted at least once with an attempt that did not raise.
C8_ProcessedImpliesHandled ==
  \A i \in EventIds :
    (events[i].source = "kafka" /\ events[i].processed) => i \in handlerOk

\* Re-invoking the side-effect handler of Event i raises whatever the store
\* does: user.created with data the User schema rejects.
HandlerRaises(i) ==
  events[i].type = "user.created" /\ ~UserValid(events[i].data)

\* C9: the retry operation sets processed=true on an Event only when the
\* re-invoked side-effect handler succeeded: never on an Event whose handler
\* raises, and for user.created only with the User in the store.
C9_RetryRunsHandler ==
  [][\A i \in EventIds :
       (~events[i].processed /\ events'[i].processed)
         => /\ ~HandlerRaises(i)
            /\ events[i].type = "user.created"
                 => \E u \in 1 .. Len(users') : users'[u].email = events[i].data.email]_vars

\* C10 as stated: once an Event has processed=false with retryCount >= 3, no
\* step changes it or sets processed=true.
C10_Original ==
  [][\A i \in EventIds :
       (~events[i].processed /\ events[i].retryCount >= RetryCeiling)
         => events'[i] = events[i]]_vars

\* C10 as amended: an Event with retryCount >= 3 is never selected by a retry
\* call, and unless it is in the batch of the retry call in flight no step
\* changes it, so it keeps processed=false.
C10_RetryCeiling ==
  [][\A i \in EventIds :
       (events[i].retryCount >= RetryCeiling /\ i \notin retrySel)
         => (i \notin retrySel' /\ events'[i] = events[i])]_vars

\* Witness of C10: with no retry call in flight an Event sits at the ceiling,
\* still processed=false.
C10_Witness ==
  /\ retryPc = "idle"
  /\ \E i \in EventIds : ~events[i].processed /\ events[i].retryCount = RetryCeiling

\* The Events a retry call finds eligible.
Eligible == { i \in EventIds : RetryFilter(events[i]) }

Min(a, b) == IF a < b THEN a ELSE b

\* C11: a retry call with the numeric limit n selects exactly min(n, number
\* eligible) eligible Events, none of them younger than an eligible Event it
\* leaves out, and while the call runs no Event outside its batch changes.
C11_BatchOrdering ==
  [][/\ \A q \in RetryLimits :
         (~ParseLimit(q).nan /\ RetryFind(q))
           => /\ retrySel' \subseteq Eligible
              /\ Cardinality(retrySel') = Min(ParseLimit(q).n, Cardinality(Eligible))
              /\ \A i \in retrySel', j \in Eligible \ retrySel' :
                   events[i].timestamp <= events[j].timestamp
     /\ retryPc = "running"
           => \A i \in EventIds \ retrySel : events'[i] = events[i]]_vars

\* C11, for limits of at least 1: the same statement holds.
C11_PositiveLimit ==
  [][/\ \A q \in RetryLimits :
         (~ParseLimit(q).nan /\ ParseLimit(q).n >= 1 /\ RetryFind(q))
           => /\ retrySel' \subseteq Eligible
              /\ Cardinality(retrySel') = Min(ParseLimit(q).n, Cardinality(Eligible))
              /\ \A i \in retrySel', j \in Eligible \ retrySel' :
                   events[i].timestamp <= events[j].timestamp
     /\ retryPc = "running"
           => \A i \in EventIds \ retrySel : events'[i] = events[i]]_vars
\* C12: a retry call without a limit selects at most 10 Events, a call with
\* any limit value selects at most 50, and no call reports more than 50
\* Events retried.
C12_BoundedBatch ==
  [][/\ \A q \in RetryLimits :
         RetryFind(q)
           => Cardinality(retrySel') <= (IF q = NoLimit THEN DefaultLimit ELSE MaxBatch)
     /\ retriedCount' <= MaxBatch]_vars
\* C13: in a running retry call every selected Event that is not yet settled
\* can take its next step whatever happened to the others, a failure for one
\* Event changes no other Event and no other promise, the count equals the
\* number of selected Events the call has set to processed=true, and a call
\* that finds no eligible Event reports 0 and changes nothing.
C13_IndependentRetries ==
  /\ [](retryPc = "running"
          => /\ \A i \in retrySel :
                  /\ retryStage[i] = "inc" => ~events[i].processed /\ ENABLED RetryInc(i)
                  /\ retryStage[i] = "mark" => ~events[i].processed /\ ENABLED RetryMark(i)
             /\ retriedCount = Cardinality({ i \in retrySel : events[i].processed }))
  /\ [][/\ \A i \in retrySel :
            (retryPc' = "running" /\ retryStage[i] # "done" /\ retryStage'[i] = "done"
               /\ ~events'[i].processed)
              => /\ events' = events
                 /\ retriedCount' = retriedCount
                 /\ \A j \in retrySel \ {i} : retryStage'[j] = retryStage[j]
        /\ \A q \in RetryLimits :
            (RetryFind(q) /\ Eligible = {})
              => retriedCount' = 0 /\ events' = events /\ retryPc' = "idle"]_vars

\* C13 witness: in one call the retry of one Event failed and another Event
\* was set to processed=true and counted.
C13_Witness ==
  /\ retryPc = "running"
  /\ retriedCount = 1
  /\ \E i, j \in retrySel :
       /\ retryStage[i] = "done" /\ ~events[i].processed
       /\ retryStage[j] = "done" /\ events[j].processed
\* C14 as stated: once the promise of a selected Event has gone past its first
\* store update, the Event's retryCount is one higher and its error message
\* is cleared.
C14_Original ==
  [][\A i \in retrySel :
       (retryPc' = "running" /\ retryStage[i] = "inc" /\ retryStage'[i] # "inc")
         => /\ events'[i].retryCount = events[i].retryCount + 1
            /\ events'[i].errorMessage = NoError]_vars

\* C14: the attempt for a selected Event (the second update) starts only
\* after a first update that raised retryCount by exactly 1 and cleared the
\* error message; a rejected first update leaves the Event unchanged and ends
\* its promise; the attempt, successful or not, leaves retryCount and the
\* cleared message as they are; and retryCount changes in no other step.
C14_IncrementBeforeAttempt ==
  [][\A i \in EventIds :
       /\ (i \in retrySel /\ retryPc' = "running" /\ retryStage[i] = "inc"
             /\ retryStage'[i] = "mark")
            => /\ events'[i].retryCount = events[i].retryCount + 1
               /\ events'[i].errorMessage = NoError
               /\ events'[i].processed = events[i].processed
       /\ (i \in retrySel /\ retryPc' = "running" /\ retryStage[i] = "inc"
             /\ retryStage'[i] = "done")
            => events'[i] = events[i]
       /\ (i \in retrySel /\ retryPc' = "running" /\ retryStage[i] = "mark")
            => /\ events'[i].retryCount = events[i].retryCount
               /\ events'[i].errorMessage = NoError
       /\ events'[i].retryCount # events[i].retryCount
            => i \in retrySel /\ retryStage[i] = "inc"]_vars

\* C14 witness: in one call an Event was incremented from 0 to 1 and its
\* attempt failed, while the first update of another Event was rejected.
C14_Witness ==
  /\ retryPc = "running"
  /\ \E i, j \in retrySel :
       /\ retryStage[i] = "done" /\ ~events[i].processed /\ events[i].retryCount = 1
       /\ retryStage[j] = "done" /\ ~events[j].processed /\ events[j].retryCount = 0
\* C15: no step removes an Event or lowers its retryCount.
C15_RetryCountMonotone ==
  [][\A i \in EventIds :
       /\ i <= Len(events')
       /\ events'[i].retryCount >= events[i].retryCount]_vars

\* C15 witness: a delivered Event was retried twice, and an Event was written
\* through the API as well.
C15_Witness ==
  \E i, j \in EventIds :
    /\ events[i].source = "kafka" /\ events[i].retryCount = 2
    /\ events[j].source = "api"
\* The Events of partition p, by id (insertion order).
PartitionEvents(p) ==
  { i \in EventIds : events[i].source = "kafka" /\ events[i].kafkaPartition = p }

\* C16: for every partition, a running handler works on the message at the
\* uncommitted offset; a handler starts, and an Event of the partition is
\* inserted, only when no handler of the partition is running; the offset is
\* committed, by one, only in the step in which the handler completes; and
\* the Events of the partition are stored in offset order, one per offset as
\* long as no crash caused a redelivery.
C16_HandlerGated ==
  /\ [](\A p \in DOMAIN pc :
          /\ pc[p] # "idle"
               => /\ committed[p] < Len(log[p])
                  /\ cur[p] # 0 => /\ cur[p] \in PartitionEvents(p)
                                    /\ events[cur[p]].kafkaOffset = committed[p]
          /\ \A i, j \in PartitionEvents(p) :
               /\ i < j => events[i].kafkaOffset <= events[j].kafkaOffset
               /\ events[i].kafkaOffset <= committed[p]
               /\ (crashes = 0 /\ i # j) => events[i].kafkaOffset # events[j].kafkaOffset)
  /\ [][\A p \in DOMAIN pc :
          /\ committed'[p] # committed[p]
               => Completes(p) /\ committed'[p] = committed[p] + 1
          /\ (PartitionEvents(p)' # PartitionEvents(p) \/ (cur'[p] # cur[p] /\ cur'[p] # 0))
               => pc[p] = "idle" /\ committed'[p] = committed[p]]_vars

\* C16 witness: two messages of one partition were handled one after the
\* other, both offsets are committed and their Events are stored in order.
C16_Witness ==
  \E p \in DOMAIN pc :
    /\ pc[p] = "idle" /\ committed[p] = 2 /\ crashes = 0
    /\ \E i, j \in PartitionEvents(p) :
         i < j /\ events[i].kafkaOffset = 0 /\ events[j].kafkaOffset = 1
\* C17: the batch of a running retry call never contains the Event of a
\* handleMessage that is still running, and no retry step modifies it.
C17_RetryAvoidsInFlight ==
  /\ [](\A p \in DOMAIN pc : (pc[p] # "idle" /\ cur[p] # 0) => cur[p] \notin retrySel)
  /\ [][\A p \in DOMAIN pc :
          (pc[p] # "idle" /\ cur[p] # 0) => events'[cur[p]] = events[cur[p]]]_vars
\* An Event without provenance: no topic, partition, offset or error message,
\* and retryCount at the schema default.
NoProvenance(e) ==
  /\ e.kafkaTopic = NoTopic
  /\ e.kafkaPartition = -1
  /\ e.kafkaOffset = -1
  /\ e.retryCount = 0
  /\ e.errorMessage = NoError

\* C18: a createEvent that persists an Event persists it with source=api and
\* processed=true, whatever the request body says, appends nothing to any
\* partition of the broker, and the Event has no provenance.
C18_ApiCreation ==
  [][(apiCount' # apiCount /\ Len(events') > Len(events))
       => LET e == events'[Len(events')]
          IN /\ e.source = "api"
             /\ e.processed
             /\ log' = log
             /\ NoProvenance(e)]_vars

\* C19: every Event with source=kafka has a topic, a partition, an offset and
\* a retryCount, and every other Event has no provenance.
C19_ProvenanceBySource ==
  \A i \in EventIds :
    IF events[i].source = "kafka"
    THEN /\ events[i].kafkaTopic # NoTopic
         /\ events[i].kafkaPartition >= 0
         /\ events[i].kafkaOffset >= 0
         /\ events[i].retryCount >= 0
    ELSE NoProvenance(events[i])
\* C20: no step removes an Event or changes the id (position), type, data,
\* source or timestamp of a stored Event.
C20_EventFrame ==
  [][\A i \in EventIds :
       /\ i <= Len(events')
       /\ events'[i].type = events[i].type
       /\ events'[i].data = events[i].data
       /\ events'[i].source = events[i].source
       /\ events'[i].timestamp = events[i].timestamp]_vars

\* C20 witness: a delivered Event has been incremented and set to processed
\* by a retry call, next to an Event written through the API.
C20_Witness ==
  \E i, j \in EventIds :
    /\ events[i].source = "kafka" /\ events[i].processed /\ events[i].retryCount >= 1
    /\ events[i].type = "user.created" /\ events[i].data.email = "a@x.com"
    /\ events[j].source = "api"
\* The types processEvent has a case for.
HandlerTypes ==
  { "user.created", "user.updated", "user.deleted", "order.created",
    "notification.sent", "purchase.created" }

\* The types that reach the default branch: the rest of the Event vocabulary
\* and every type outside it.
NoHandlerTypes == (EventTypes \cup { UnknownBody.type }) \ HandlerTypes

\* Partition p has a message at its uncommitted offset, decoded, of a type in T.
Handling(p, T) ==
  /\ committed[p] < Len(log[p])
  /\ CurrentMsg(p).body.raw = "json"
  /\ CurrentMsg(p).body.type \in T

\* handleMessage for partition p leaves the state given by from in this step.
Leaves(p, from) == pc[p] = from /\ pc'[p] # from /\ crashes' = crashes

\* C21: for a decoded message whose type has no handler, the store being
\* available, step 2 persists its Event and the handler step changes no User
\* and no Event, records no failure and completes the message as handled.
C21_UnknownTypeNoOp ==
  [][\A p \in DOMAIN pc :
       Handling(p, NoHandlerTypes)
         => /\ Leaves(p, "idle")
                 => \/ err'[p] = "StoreUnavailable"
                    \/ /\ pc'[p] = "process"
                       /\ Len(events') = Len(events) + 1
                       /\ events'[Len(events')].type = CurrentMsg(p).body.type
            /\ Leaves(p, "process")
                 => /\ users' = users
                    /\ events' = events
                    /\ pc'[p] = "idle"
                    /\ committed'[p] = committed[p] + 1]_vars
\* C22: the handler of a purchase.created message in the format
\* sendPurchaseEvent publishes returns without raising, the message is
\* completed as handled, and no User or Event changes.
C22_PurchaseAlwaysSucceeds ==
  [][\A p \in DOMAIN pc :
       (Handling(p, { "purchase.created" }) /\ CurrentMsg(p).body = PurchaseWire
          /\ Leaves(p, "process"))
         => /\ pc'[p] = "idle"
            /\ committed'[p] = committed[p] + 1
            /\ users' = users
            /\ events' = events]_vars

\* The User a message's userId refers to exists.
TargetExists(body) ==
  body.userId.kind = "objectId" /\ body.userId.n \in 1 .. Len(users)

\* C23: the store being available, the handler of a user.updated or
\* user.deleted message whose userId matches no User returns without raising
\* and leaves the User collection as it is; when the User exists,
\* user.deleted sets exactly that User inactive and removes none.
C23_MissingTargetNoError ==
  [][\A p \in DOMAIN pc :
       (Handling(p, { "user.updated", "user.deleted" }) /\ Leaves(p, "process"))
         => LET body == CurrentMsg(p).body IN
            /\ ~TargetExists(body)
                 => /\ users' = users
                    /\ \/ err'[p] = "StoreUnavailable"
                       \/ pc'[p] = "idle" /\ committed'[p] = committed[p] + 1
            /\ (TargetExists(body) /\ body.type = "user.deleted")
                 => \/ err'[p] = "StoreUnavailable" /\ users' = users
                    \/ /\ pc'[p] = "idle"
                       /\ users' = [users EXCEPT ![body.userId.n].isActive = FALSE]]_vars
\* C24: a sendMessage on a producer that is not connected raises 'Kafka
\* producer not connected', publishes nothing and leaves isConnected, the
\* client's connection and the number of connects as they are; and the
\* producer is not connected before connect, after a disconnect and after a
\* failed connect.
C24_SendWhenNotConnected ==
  /\ [][\A k \in KeyArgs, u \in UserIds :
          (~isConnected /\ KafkaProducerSend(k, u))
            => /\ sendResult'.outcome = "raised"
               /\ sendResult'.logged = "Kafka producer not connected"
               /\ sent' = sent
               /\ UNCHANGED << isConnected, brokerLink, connects >>]_vars
  /\ [](/\ connects = 0 => ~isConnected
        /\ (sendResult.op = "connect" /\ sendResult.outcome = "raised") => ~isConnected
        /\ (sendResult.op = "disconnect" /\ sendResult.outcome = "returned") => ~isConnected)

\* C24 witness: a producer that has published a message and was disconnected
\* afterwards refused a send.
C24_Witness ==
  /\ ~isConnected
  /\ Len(sent) = 1
  /\ sendResult.op = "send"
  /\ sendResult.logged = "Kafka producer not connected"

\* C25: a sendMessage that publishes a message returns the partition and
\* offset the broker assigned to it.
C25_SendReturnsMetadata ==
  [][\A k \in KeyArgs, u \in UserIds :
       (KafkaProducerSend(k, u) /\ Len(sent') > Len(sent))
         => /\ sendResult'.returned.kind = "metadata"
            /\ sendResult'.returned.partition = sent'[Len(sent')].partition
            /\ sendResult'.returned.offset = sent'[Len(sent')].offset]_vars

\* C26: connect on a connected producer returns without an underlying
\* connect and changes nothing, and disconnect on a producer that is not
\* connected returns and changes nothing.
C26_ConnectIdempotent ==
  [][/\ (isConnected /\ KafkaProducerConnect)
          => /\ sendResult'.outcome = "returned"
             /\ isConnected'
             /\ UNCHANGED << connects, brokerLink, sent >>
     /\ (~isConnected /\ KafkaProducerDisconnect)
          => /\ sendResult'.outcome = "returned"
             /\ ~isConnected'
             /\ UNCHANGED << connects, brokerLink, sent >>]_vars

\* C26 witness: connect was called on a producer connected by its one
\* underlying connect, and returned.
C26_Witness ==
  /\ isConnected
  /\ connects = 1
  /\ sendResult = Result("connect", "returned", "already connected", NoValue)
\* C27 as stated: every published message carries the key argument when one
\* was passed and the message's userId otherwise.
C27_Original ==
  \A i \in 1 .. Len(sent) :
    /\ sent[i].keyArg # Undefined => sent[i].key = sent[i].keyArg
    /\ sent[i].keyArg = Undefined => sent[i].key = sent[i].userId

\* C27: every published message carries the key argument when a non-empty one
\* was passed, otherwise the message's userId when it has a non-empty one,
\* otherwise 'default'; two messages published without a key argument for the
\* same userId carry the same key.
C27_PartitionKey ==
  /\ \A i \in 1 .. Len(sent) :
       /\ Truthy(sent[i].keyArg) => sent[i].key = sent[i].keyArg
       /\ (~Truthy(sent[i].keyArg) /\ Truthy(sent[i].userId))
            => sent[i].key = sent[i].userId
       /\ (~Truthy(sent[i].keyArg) /\ ~Truthy(sent[i].userId))
            => sent[i].key = "default"
  /\ \A i, j \in 1 .. Len(sent) :
       (sent[i].keyArg = Undefined /\ sent[j].keyArg = Undefined
          /\ sent[i].userId = sent[j].userId)
         => sent[i].key = sent[j].key

\* C27 witness: two messages for the same userId were published without a
\* key argument, and one of them carries the userId as its key.
C27_Witness ==
  /\ Len(sent) = 2
  /\ sent[1].keyArg = Undefined /\ sent[2].keyArg = Undefined
  /\ sent[1].userId = "u1" /\ sent[2].userId = "u1"
  /\ sent[1].key = "u1"

\* C28: a sendMessage that fails on a producer whose connection to the
\* broker is lost raises to its caller and leaves the producer not
\* connected, and a lost connection comes back only through connect.
C28_ReconnectRequired ==
  [][/\ \A k \in KeyArgs, u \in UserIds :
         (isConnected /\ brokerLink = "down" /\ KafkaProducerSend(k, u)
            /\ Len(sent') = Len(sent))
           => sendResult'.outcome = "raised" /\ ~isConnected'
     /\ (brokerLink = "down" /\ brokerLink' = "up") => connects' = connects + 1]_vars
\* C29: the database connection is open as long as the consumer is running
\* or a handler is in flight, and the consumer stops only when no handler is
\* in flight.
C29_DrainBeforeDisconnect ==
  /\ []((isRunning \/ \E p \in DOMAIN pc : pc[p] # "idle") => dbOpen)
  /\ [][(isRunning /\ ~isRunning') => \A p \in DOMAIN pc : pc[p] = "idle"]_vars
\* C30: a step of handleMessage for one partition leaves the consumer's
\* isRunning flag and the handler state of every other partition unchanged,
\* and once every message has been handled the Events and Users are those
\* of some sequential execution of the same invocations.
C30_ConcurrentPartitions ==
  /\ [](Quiescent =>
          [events |-> { events[i] : i \in EventIds }, users |-> users] \in SeqOutcomes)
  /\ [][\A p \in DOMAIN pc :
          HandleMessageStep(p) =>
            /\ isRunning' = isRunning
            /\ \A q \in DOMAIN pc \ { p } :
                 /\ pc'[q] = pc[q]
                 /\ cur'[q] = cur[q]
                 /\ err'[q] = err[q]
                 /\ committed'[q] = committed[q]]_vars

\* C30 witness: both partitions stored their Event (partition 0 first) and
\* both handlers returned, yet the user.updated handler of partition 1 ran
\* before the user.created handler of partition 0 created the User.
C30_Witness ==
  /\ Quiescent
  /\ Len(events) = 2
  /\ events[1].kafkaPartition = 0 /\ events[1].type = "user.created"
  /\ events[2].kafkaPartition = 1 /\ events[2].type = "user.updated"
  /\ handlerOk = { 1, 2 }
  /\ Len(users) = 1 /\ users[1].nameLen = 2
\* handleMessage for partition p is in its catch block because the Event
\* Store write of step 2 failed: the message was decoded, no Event was stored.
StoreWriteFailed(p) ==
  /\ pc[p] = "storeFailed"
  /\ cur[p] = 0
  /\ CurrentMsg(p).body.raw = "json"

\* C31: when the Event Store write of step 2 failed, the step that ends
\* handleMessage does not commit the message: the offset stays where it was,
\* so the message is delivered again.
C31_StoreFailureRedelivers ==
  [][\A p \in DOMAIN pc :
       (StoreWriteFailed(p) /\ Completes(p)) => committed'[p] = committed[p]]_vars
\* C32: the timestamp of an Event stored for a broker message is the
\* timestamp field of the payload when the payload has one, and the broker's
\* time for the message otherwise.
C32_PayloadTimestamp ==
  \A i \in EventIds :
    events[i].source = "kafka" =>
      LET m == log[events[i].kafkaPartition][events[i].kafkaOffset + 1]
      IN events[i].timestamp = IF m.payloadTimestamp # NoTimestamp
                               THEN m.payloadTimestamp[1]
                               ELSE m.timestamp
\* C33: isRunning holds only while the client is connected, subscribed to
\* the five default topics and running; start on a running consumer and stop
\* on a stopped one change nothing; a start in which a step fails raises to
\* its caller and leaves isRunning false.
C33_ConsumerLifecycle ==
  /\ [](isRunning =>
          /\ clientConnected
          /\ clientRunning
          /\ subscribed = Range(DefaultTopics)
          /\ Cardinality(subscribed) = 5)
  /\ [][(KafkaConsumerStart /\ isRunning) \/ (KafkaConsumerStop /\ ~isRunning)
          => /\ UNCHANGED << isRunning, topics, subscribed, clientConnected, clientRunning >>
             /\ consumerResult'.outcome = "returned"]_vars
  /\ [][(KafkaConsumerStart /\ ~isRunning /\ ~clientRunning')
          => consumerResult'.outcome = "raised" /\ ~isRunning']_vars
  /\ [][(KafkaConsumerStart /\ consumerResult'.outcome = "raised") => ~isRunning']_vars

\* C33 witness: start was called on a consumer that is running, after a
\* message has been consumed.
C33_Witness ==
  /\ isRunning
  /\ consumerResult = Result("start", "returned", "already running", NoValue)
  /\ committed[0] = 1
\* C34: the delivery of a message with an empty value ends handleMessage in
\* the same step as handled (the offset is committed, nothing is raised),
\* with no Event inserted and no User or handler record changed; no stored
\* Event, normal or system.error, ever belongs to such a message.
C34_EmptySkipped ==
  /\ [][\A p \in DOMAIN pc :
          (Deliver(p) /\ CurrentMsg(p).body = EmptyBody)
            => /\ pc'[p] = "idle"
               /\ committed'[p] = committed[p] + 1
               /\ UNCHANGED << events, users, handlerOk, userCause >>]_vars
  /\ [](\A i \in EventIds :
          events[i].source = "kafka"
            => log[events[i].kafkaPartition][events[i].kafkaOffset + 1].body # EmptyBody)

\* C34 witness: an empty message was skipped and the well-formed message
\* behind it was handled, leaving that message's Event as the only one.
C34_Witness ==
  /\ Quiescent
  /\ Len(log[0]) = 2
  /\ log[0][1].body = EmptyBody
  /\ log[0][2].body = CreatedBody("a@x.com", 2)
  /\ Len(events) = 1
  /\ events[1].kafkaOffset = 1
  /\ Len(users) = 1
\* C35: no step sets processed of an Event back to false, and no step adds an
\* Event with processed=true to the batch of a retry call.
C35_ProcessedMonotone ==
  [][\A i \in EventIds :
       events[i].processed
         => /\ i \in DOMAIN events' /\ events'[i].processed
            /\ i \in retrySel' => i \in retrySel]_vars

\* C35 witness: a delivered Event was set to processed by a retry call, an
\* API Event was written, and a later retry call selected nothing.
C35_Witness ==
  /\ retryPc = "idle"
  /\ retriedCount = 0
  /\ \E i, j \in EventIds :
       /\ events[i].source = "kafka" /\ events[i].processed
       /\ events[j].source = "api" /\ events[j].processed
\* C36: every Event stored for a broker message has retryCount <= 3; a step
\* changes the retryCount of an Event only by adding 1, only below the
\* ceiling and only as the first update of the Event in a running retry call,
\* which does not come again in that call.
C36_RetryCountBounded ==
  /\ [](\A i \in EventIds :
          events[i].source = "kafka" => events[i].retryCount <= RetryCeiling)
  /\ [][\A i \in EventIds :
          /\ events'[i].retryCount # events[i].retryCount
               => /\ events'[i].retryCount = events[i].retryCount + 1
                  /\ events[i].retryCount < RetryCeiling
                  /\ i \in retrySel /\ retryStage[i] = "inc" /\ retryStage'[i] = "mark"
          /\ (i \in retrySel /\ i \in retrySel' /\ retryStage[i] # "inc")
               => retryStage'[i] # "inc"]_vars

\* C36 witness: three retry calls have each incremented the Event of a
\* delivered message and failed to mark it; it sits at the ceiling.
C36_Witness ==
  /\ retryPc = "idle"
  /\ Quiescent
  /\ \E i \in EventIds :
       /\ events[i].source = "kafka"
       /\ events[i].retryCount = RetryCeiling
       /\ events[i].errorMessage = NoError
       /\ ~events[i].processed
\* C37: a connect call whose underlying producer.connect() resolves finds
\* the producer not yet connected: no second connection is established by a
\* call that overlaps another.
C37_ConnectOnce ==
  [][\A c \in Callers :
       (ConnectEnd(c) /\ sendResult'.outcome = "returned") => ~isConnected]_vars
\* C38: in every successful statistics response processedEvents plus
\* unprocessedEvents equals totalEvents.
C38_StatsConsistent ==
  stats.response = "ok"
    => stats.processedEvents + stats.unprocessedEvents = stats.totalEvents
\* C39: while the consumer runs, the topic list getStatus reports has no
\* topic twice and holds exactly the topics the client is subscribed to.
C39_StatusMatchesSubscription ==
  GetStatus.isRunning
    => /\ \A i, j \in 1 .. Len(GetStatus.topics) :
            GetStatus.topics[i] = GetStatus.topics[j] => i = j
       /\ Range(GetStatus.topics) = subscribed
====
